---- MODULE Spec2Model ----
(***************************************************************************)
(* EchoSim (cardiac ultrasound simulator and quiz): the position-to-view   *)
(* resolution engine and the quiz progression machine.                     *)
(*                                                                         *)
(* The program is a single-threaded browser page.  Every action below is   *)
(* one event handler run to completion.  The module-level `let` variables  *)
(* of the scripts and the parts of the DOM the handlers read or write are  *)
(* the state.  A handler is written as a function from a state record to   *)
(* a state record (statement after statement, as in the script) and the    *)
(* action commits the last record.                                         *)
(*                                                                         *)
(* The page markup and style sheet are not part of the sources.  What the  *)
(* model takes from them is kept in four definitions (cells, Parent,       *)
(* InitiallyHidden, HomePositions): four drop zones 1..4, a control lying  *)
(* in the screen that the handlers show and hide around it, and only the   *)
(* title screen showing at start.  A control can be operated when neither  *)
(* it nor its screen carries the class `hidden`; the dimming overlay is    *)
(* not taken to stop input (buttons stay reachable from the keyboard).     *)
(***************************************************************************)
EXTENDS Integers, Sequences, FiniteSets, TLC

\* ---------------------------------------------------------------- bounds
\* The probe's centre can be on the four drop zones and on Margin more
\* points of the container that lie on no zone.
Margin == 1

\* The zone resolver taken on its own is given rectangles and points whose
\* coordinates are 0..MaxCoord.
MaxCoord == 2

\* The clock conversion taken on its own is given the angles
\* -MaxAngle..MaxAngle: two turns either way.
MaxAngle == 720

\* ----------------------------------------------------------- data tables

\* imagedata.js: cellOrientationMap (views are 0-indexed in the script,
\* 1-indexed here: views[i] of the script is views[i + 1]).
cellOrientationMap ==
    [pos \in 1..4 |->
        CASE pos = 1 -> << [angle |-> 0, tail |-> "up", view |-> "Suprasternal Notch"] >>
          [] pos = 2 -> << [angle |-> 30, tail |-> "up", view |-> "Parasternal Short-axis MV"],
                           [angle |-> 30, tail |-> "down", view |-> "Parasternal Short-axis AV"],
                           [angle |-> 300, tail |-> "up", view |-> "Parasternal Long-axis"] >>
          [] pos = 3 -> << [angle |-> 90, tail |-> "down", view |-> "Subcostal 4-chamber"] >>
          [] pos = 4 -> << [angle |-> 90, tail |-> "down", view |-> "Apical 4-chamber"] >>]

\* A map that offers the first view of a position only.
ViewsOf_FirstOnly(pos) ==
    IF pos \in DOMAIN cellOrientationMap THEN SubSeq(cellOrientationMap[pos], 1, 1) ELSE << >>

\* cellOrientationMap[pos] || [] : a position the map does not hold has no views.
ViewsOf(pos) ==
    IF pos \in DOMAIN cellOrientationMap THEN cellOrientationMap[pos] ELSE << >>

\* imagedata.js: the keys of imageSetsByAngleAndTail; each holds four images,
\* one per position, so imageSetsByAngleAndTail[key]?.[pos-1] is defined
\* exactly for these keys and pos in 1..4.
imageKeys == {"30_up", "30_down", "0_up", "90_down", "300_up"}

imageSetsByAngleAndTail(key, pos) ==
    IF key \in imageKeys /\ pos \in 1..4
    THEN "Echo_Images/" \o key \o "_" \o ToString(pos) \o ".png"
    ELSE "undefined"

Circle(x, y, answer, text) == [x |-> x, y |-> y, answer |-> answer, text |-> text]

\* imagedata.js: circlePositionsByKey[key]?.[pos - 1] || []
circlePositionsByKey(key, pos) ==
    CASE key = "30_up" /\ pos = 2 ->
            << Circle(45, 54, "A", "Left Ventricle") >>
      [] key = "30_down" /\ pos = 2 ->
            << Circle(45, 56, "B", "Aortic Valve"), Circle(45, 37, "C", "RVOT"),
               Circle(45, 70, "D", "Left Atrium"), Circle(30, 60, "E", "Right Atrium") >>
      [] key = "300_up" /\ pos = 2 ->
            << Circle(40, 50, "F", "Left Ventricle"), Circle(53, 30, "G", "Right Ventricle"),
               Circle(65, 60, "H", "Left Atrium"), Circle(53, 60, "I", "Mitral Valve"),
               Circle(60, 49, "K", "Ascending Aorta") >>
      [] key = "0_up" /\ pos = 1 ->
            << Circle(45, 28, "A", "Brachiocephalic Trunk"),
               Circle(50, 35, "B", "Left Common Carotid Artery"),
               Circle(35, 60, "C", "Thoracic Descending Artery"),
               Circle(33, 50, "D", "Main Pulmonary Artery") >>
      [] key = "90_down" /\ pos = 3 ->
            << Circle(50, 30, "A", "Liver"), Circle(30, 65, "B", "Right Atrium"),
               Circle(53, 58, "C", "Left Ventricle") >>
      [] key = "90_down" /\ pos = 4 ->
            << Circle(38, 54, "A", "Right Ventricle"), Circle(54, 50, "B", "Left Ventricle"),
               Circle(42, 63, "C", "Tricuspid Valve"), Circle(53, 60, "D", "Mitral Valve"),
               Circle(41, 67, "E", "Right Atrium"), Circle(55, 70, "F", "Left Atrium") >>
      [] OTHER -> << >>

\* imagedata.js: quizData (question i of the script is quizData[i + 1]).
quizData ==
    << [key |-> "300_up", correctPosition |-> 2, correctAnswer |-> "G",
        correctImage |-> "Echo_Images/answer/Q1_ans.png"],
       [key |-> "30_down", correctPosition |-> 2, correctAnswer |-> "B",
        correctImage |-> "Echo_Images/answer/Q2_ans.png"],
       [key |-> "0_up", correctPosition |-> 1, correctAnswer |-> "D",
        correctImage |-> "Echo_Images/answer/Q3_ans.png"],
       [key |-> "90_down", correctPosition |-> 4, correctAnswer |-> "F",
        correctImage |-> "Echo_Images/answer/Q4_ans.png"],
       [key |-> "90_down", correctPosition |-> 3, correctAnswer |-> "C",
        correctImage |-> "Echo_Images/answer/Q5_ans.png"] >>

\* quizData[i] is an object (truthy) exactly when 0 <= i < quizData.length.
HasQuestion(i) == i \in 0..(Len(quizData) - 1)

\* ------------------------------------------------ page layout (markup)

\* document.querySelectorAll('.cell'): the drop zones in document order, each
\* with its data-pos and its bounding rectangle (bounds inclusive).
cells ==
    << [pos |-> 1, left |-> 0, right |-> 0, top |-> 0, bottom |-> 0],
       [pos |-> 2, left |-> 1, right |-> 1, top |-> 0, bottom |-> 0],
       [pos |-> 3, left |-> 2, right |-> 2, top |-> 0, bottom |-> 0],
       [pos |-> 4, left |-> 3, right |-> 3, top |-> 0, bottom |-> 0] >>

\* The points of the container the probe's centre can be dragged to.
Points == [x : 0..(Len(cells) - 1 + Margin), y : {0}]

\* The element each control lies in; a screen lies in itself.  The feedback
\* modal and the exit prompt lie in the simulator container (the handlers
\* that leave the simulator hide the container and never the feedback modal).
Parent(e) ==
    CASE e \in {"startButton", "sandBoxButton"} -> "titleScreen"
      [] e = "continueButton" -> "questionTitleScreen"
      [] e \in {"exitButton", "toggleButton", "probe", "circle", "feedbackBox",
                 "exitPrompt"} -> "container"
      [] e \in {"confirmExitButton", "cancelExitButton"} -> "exitPrompt"
      [] e = "restartButton" -> "endScreen"
      [] e \in {"nextQuestionButton", "showAnswerButton", "correctAnswerImage"} -> "feedbackBox"
      [] OTHER -> e

\* The elements that carry the class `hidden` when the page has loaded.
InitiallyHidden ==
    {"questionTitleScreen", "container", "endScreen", "feedbackBox", "exitPrompt", "toggleButton", "showAnswerButton", "nextQuestionButton",
     "correctAnswerImage", "partContainer"}

\* The places where a probe that has not been dragged can be (its style-sheet
\* position, and left = 120px, top = 200px after a restart): the markup decides
\* whether that is over a zone, so both cases are kept.
HomePositions == {[x |-> Len(cells), y |-> 0], [x |-> 0, y |-> 0]}

\* -------------------------------------------------------------- state

VARIABLES
    currentQuestionIndex, score, sweepDeg, tailPosition, lastCellPos,
    currentViewIndex, isSimulatorActive, isFeedbackActive, isSandBoxActive,
    isDragging,
    probePos,          \* centre of the probe (probe.style.left / top)
    hidden,            \* the elements whose classList holds 'hidden'
    imagePanel,        \* content of #imageDisplay: message or image and circles
    partDisplay, rotationDisplay, tailDisplay, viewDisplay,
    toggleText,        \* <<n, total>> of "Switch View (n/total)"
    feedbackText, finalScore, correctAnswerImageSrc, questionBox,
    activeCircleElement,  \* the circle of the panel that is highlighted (null: none)
    rafFirst, rafSecond,  \* a refreshRope callback waits for its 1st / 2nd frame
    ropePath,          \* what the last updateRope drew the cable from
    lastEvent,         \* history: the handler that ran last
    gained,            \* history: score increments since the question was entered
    clicks,            \* history: quiz clicks on the current question (2: two or more)
    firstCorrect,      \* history: questions of this play-through whose first click matched
    cycleTrace,        \* history: view indices seen over consecutive toggle clicks
    zoneRects,         \* resolver on its own: the cells' rectangles, in document order
    zonePoint,         \* resolver on its own: the probe's centre
    zoneResult,        \* resolver on its own: << >>, or << index of the match, 0 for none >>
    geomIn,            \* geometry on its own: what a rope drawing, a clamping or a
                       \* clock conversion is given
    geomOut            \* geometry on its own: << >>, or << what it produced >>

progVars ==
    << currentQuestionIndex, score, sweepDeg, tailPosition, lastCellPos,
       currentViewIndex, isSimulatorActive, isFeedbackActive, isSandBoxActive,
       isDragging, probePos, hidden, imagePanel, partDisplay,
       rotationDisplay, tailDisplay, viewDisplay, toggleText, feedbackText,
       finalScore, correctAnswerImageSrc, questionBox, activeCircleElement,
       rafFirst, rafSecond, ropePath >>

histVars == << lastEvent, gained, clicks, firstCorrect, cycleTrace >>

resolverVars == << zoneRects, zonePoint, zoneResult >>

geomVars == << geomIn, geomOut >>

vars == << progVars, histVars, resolverVars, geomVars >>

\* The program state as one record, so that a handler reads as its script.
Cur ==
    [ currentQuestionIndex |-> currentQuestionIndex, score |-> score,
      sweepDeg |-> sweepDeg, tailPosition |-> tailPosition,
      lastCellPos |-> lastCellPos, currentViewIndex |-> currentViewIndex,
      isSimulatorActive |-> isSimulatorActive, isFeedbackActive |-> isFeedbackActive,
      isSandBoxActive |-> isSandBoxActive,
      isDragging |-> isDragging, probePos |-> probePos, hidden |-> hidden,
      imagePanel |-> imagePanel, partDisplay |-> partDisplay,
      rotationDisplay |-> rotationDisplay, tailDisplay |-> tailDisplay,
      viewDisplay |-> viewDisplay, toggleText |-> toggleText,
      feedbackText |-> feedbackText, finalScore |-> finalScore,
      correctAnswerImageSrc |-> correctAnswerImageSrc, questionBox |-> questionBox,
      activeCircleElement |-> activeCircleElement,
      rafFirst |-> rafFirst, rafSecond |-> rafSecond, ropePath |-> ropePath ]

\* An element shows when neither it nor what it lies in is hidden.
Shown(s, e) ==
    e \notin s.hidden /\ Parent(e) \notin s.hidden /\ Parent(Parent(e)) \notin s.hidden

\* The text (or image source) an element shows.  No handler reads these back,
\* and each handler that un-hides one of these elements writes it first, so
\* what a hidden one holds is never seen and is not kept.
Rendered(s, e, content, blank) == IF Shown(s, e) THEN content ELSE blank

\* containerOverlay only dims the page: no handler reads its class and it
\* holds no control, so its class is not kept.
Untracked == {"containerOverlay"}

Commit(s) ==
    /\ currentQuestionIndex' = s.currentQuestionIndex
    /\ score' = s.score
    /\ sweepDeg' = s.sweepDeg
    /\ tailPosition' = s.tailPosition
    /\ lastCellPos' = s.lastCellPos
    /\ currentViewIndex' = s.currentViewIndex
    /\ isSimulatorActive' = s.isSimulatorActive
    /\ isFeedbackActive' = s.isFeedbackActive
    /\ isSandBoxActive' = s.isSandBoxActive
    /\ isDragging' = s.isDragging
    /\ probePos' = s.probePos
    /\ hidden' = s.hidden \ Untracked
    /\ imagePanel' = s.imagePanel
    /\ partDisplay' = s.partDisplay
    /\ rotationDisplay' = s.rotationDisplay
    /\ tailDisplay' = s.tailDisplay
    /\ viewDisplay' = s.viewDisplay
    /\ toggleText' = Rendered(s, "toggleButton", s.toggleText, << 0, 0 >>)
    /\ feedbackText' = s.feedbackText
    /\ finalScore' = Rendered(s, "endScreen", s.finalScore, << 0, 0 >>)
    /\ correctAnswerImageSrc' = Rendered(s, "correctAnswerImage", s.correctAnswerImageSrc, "")
    /\ questionBox' = s.questionBox
    /\ activeCircleElement' = s.activeCircleElement
    /\ rafFirst' = s.rafFirst
    /\ rafSecond' = s.rafSecond
    /\ ropePath' = s.ropePath
    /\ UNCHANGED << resolverVars, geomVars >>

\* classList.add('hidden') / classList.remove('hidden')
Hide(s, es) == [s EXCEPT !.hidden = @ \cup es]
Show(s, es) == [s EXCEPT !.hidden = @ \ es]

\* A control takes input when it shows.
Operable(e) == Shown(Cur, e)

\* A click comes after the mouseup that ends a drag.
Clickable(e) == Operable(e) /\ ~isDragging

null == 0      \* lastCellPos = null (positions are 1..4)
NaN  == -1     \* the result of x % 0

\* ------------------------------------------------------------ helpers

\* JavaScript's % on integers: the result takes the sign of the dividend.
JsRem(a, b) == IF a >= 0 THEN a % b ELSE 0 - ((0 - a) % b)

clockLabels ==
    << "12 o'clock", "1 o'clock", "2 o'clock", "3 o'clock", "4 o'clock", "5 o'clock",
       "6 o'clock", "7 o'clock", "8 o'clock", "9 o'clock", "10 o'clock", "11 o'clock" >>

\* A conversion that takes the hour begun instead of the nearest.
degreesToClock_RoundDown(angle) ==
    LET normalized == JsRem(JsRem(angle, 360) + 360, 360)
        hourIndex  == (normalized \div 30) % 12
    IN  clockLabels[hourIndex + 1]

\* part_000: degreesToClock.  Math.round(n / 30) of an integer n >= 0 is
\* (n + 15) \div 30: halves round up.
degreesToClock(angle) ==
    LET normalized == JsRem(JsRem(angle, 360) + 360, 360)
        hourIndex  == ((normalized + 15) \div 30) % 12
    IN  clockLabels[hourIndex + 1]

\* `${angle}_${tailDir}`
KeyOf(angle, tailDir) == ToString(angle) \o "_" \o tailDir

\* A resolver that compares the horizontal extent alone.
MatchIn_XOnly(cs, p) ==
    LET hits == {i \in 1..Len(cs) : p.x >= cs[i].left /\ p.x <= cs[i].right}
    IN  IF hits = {} THEN 0 ELSE CHOOSE i \in hits : \A j \in hits : i <= j

\* A resolver that keeps the last cell that holds the point.
MatchIn_Last(cs, p) ==
    LET hits == {i \in 1..Len(cs) :
                    /\ p.x >= cs[i].left
                    /\ p.x <= cs[i].right
                    /\ p.y >= cs[i].top
                    /\ p.y <= cs[i].bottom}
    IN  IF hits = {} THEN 0 ELSE CHOOSE i \in hits : \A j \in hits : i >= j

\* part_004 lines 100-106: the first cell of cs, in document order, whose
\* rectangle holds the point (Array.from(cells).find(...), bounds
\* inclusive); 0 when there is none (undefined).
MatchIn(cs, p) ==
    LET hits == {i \in 1..Len(cs) :
                    /\ p.x >= cs[i].left
                    /\ p.x <= cs[i].right
                    /\ p.y >= cs[i].top
                    /\ p.y <= cs[i].bottom}
    IN  IF hits = {} THEN 0 ELSE CHOOSE i \in hits : \A j \in hits : i <= j

\* The match among the page's cells.
Match(p) ==
    MatchIn(cells, p)

ZoneAt(p) == IF Match(p) = 0 THEN null ELSE cells[Match(p)].pos

\* The contents the handlers put into #imageDisplay.
EmptyPanel == [kind |-> "empty", key |-> "", pos |-> null, src |-> "", circles |-> << >>]
PromptPanel == [EmptyPanel EXCEPT !.kind = "Drop the probe on a valid zone to view an image"]
InvalidPanel == [EmptyPanel EXCEPT !.kind = "Invalid position for this probe orientation"]
NoImagePanel(key, pos) == [EmptyPanel EXCEPT !.kind = "No image for key", !.key = key, !.pos = pos]
ImagePanel(key, pos) ==
    [kind |-> "image", key |-> key, pos |-> pos, src |-> imageSetsByAngleAndTail(key, pos),
     circles |-> circlePositionsByKey(key, pos)]

\* ------------------------------------------------------- rope (cable)

\* part_003: updateRope draws the path from the probe's centre, sweepDeg,
\* tailPosition and currentViewIndex as they are when it runs.
updateRope(s) ==
    [s EXCEPT !.ropePath = [center |-> s.probePos, angle |-> s.sweepDeg,
                            tail |-> s.tailPosition, viewIndex |-> s.currentViewIndex]]

\* A deferral of one frame only.
refreshRope_SingleFrame(s) == [s EXCEPT !.rafSecond = TRUE]

\* part_003: refreshRope queues a callback for the next frame, which queues
\* updateRope for the frame after.  All queued callbacks do the same, so a
\* flag per stage holds what the two queues hold.
refreshRope(s) == [s EXCEPT !.rafFirst = TRUE]

\* ------------------------------------------------- rope geometry (part_003)

\* A coordinate or a length: (n + r * sqrt(3)) / 10 pixels, n and r integers.
\* The cosines and sines of the multiples of 30 degrees, and so every number
\* the rope is drawn from at such an angle, are of this form; the script
\* computes them in double precision, which rounds in the 16th digit.
Px(k) == [n |-> 10 * k, r |-> 0]
Plus(a, b) == [n |-> a.n + b.n, r |-> a.r + b.r]
Minus(a, b) == [n |-> a.n - b.n, r |-> a.r - b.r]
Times(k, a) == [n |-> k * a.n, r |-> k * a.r]
\* k tenths of a, for a whole number of pixels
TenthsOf(k, a) == [n |-> (k * a.n) \div 10, r |-> (k * a.r) \div 10]

\* 2 * Math.cos of a multiple of 30 degrees, in units.
TwiceCos(deg) ==
    LET U(n, r) == [n |-> n, r |-> r]
        table == << U(2, 0), U(0, 1), U(1, 0), U(0, 0), U(-1, 0), U(0, -1),
                    U(-2, 0), U(0, -1), U(-1, 0), U(0, 0), U(1, 0), U(0, 1) >>
    IN  table[((deg % 360) \div 30) + 1]

\* 2 * Math.sin: sin(a) = cos(a - 90)
TwiceSin(deg) ==
    TwiceCos(deg + 270)

\* A tail anchor on the same side of the probe for both tail directions.
getTailAnchor_SameSide(center, angleDeg, tailDir, viewIndex) ==
    LET r == 160 \div 2
    IN  IF viewIndex = 2
        THEN center
        ELSE [x |-> Plus(center.x, Times(5 * r, TwiceCos(angleDeg))),
              y |-> Plus(center.y, Times(5 * r, TwiceSin(angleDeg)))]

\* part_003: getTailAnchor.  center is getProbeCenter(probeEl); 5 * r times
\* twice the cosine is r * cos in tenths of a pixel.
getTailAnchor(center, angleDeg, tailDir, viewIndex) ==
    LET r == 160 \div 2
        offsetAngle == IF tailDir = "down" THEN angleDeg ELSE angleDeg + 180
    IN  IF viewIndex = 2
        THEN center
        ELSE [x |-> Plus(center.x, Times(5 * r, TwiceCos(offsetAngle))),
              y |-> Plus(center.y, Times(5 * r, TwiceSin(offsetAngle)))]

\* A conversion that gives the origin when it has no matrix.
toSvgCoords_Origin(ctm, x, y) ==
    IF ~ctm.available
    THEN [x |-> Px(0), y |-> Px(0), warned |-> TRUE]
    ELSE [x |-> Plus(Times(ctm.a, x), Px(ctm.e)),
          y |-> Plus(Times(ctm.d, y), Px(ctm.f)), warned |-> FALSE]

\* part_003: toSvgCoords.  ctm stands for svg.getScreenCTM(): not available
\* (null), or the matrix whose inverse scales by a, d and shifts by e, f.
\* warned: console.warn was called.
toSvgCoords(ctm, x, y) ==
    IF ~ctm.available
    THEN [x |-> x, y |-> y, warned |-> TRUE]
    ELSE [x |-> Plus(Times(ctm.a, x), Px(ctm.e)),
          y |-> Plus(Times(ctm.d, y), Px(ctm.f)), warned |-> FALSE]

\* A path whose control points take the same fractions for both tail sides.
RopePathD_OneShape(mBox, tailScreen, tailDir, ctm) ==
    LET mx  == [n |-> 10 * mBox.left + 5 * mBox.width, r |-> 0]
        my  == Px(mBox.top + 20)
        c1x == Plus(mx, TenthsOf(7, Minus(tailScreen.x, mx)))
        c1y == Minus(my, Px(50))
        c2x == c1x
        c2y == Minus(tailScreen.y, Px(350))
    IN  [M  |-> toSvgCoords(ctm, mx, my),
         C1 |-> toSvgCoords(ctm, c1x, c1y),
         C2 |-> toSvgCoords(ctm, c2x, c2y),
         T  |-> toSvgCoords(ctm, tailScreen.x, tailScreen.y)]

\* part_003 lines 44-73: the path updateRope writes to ropePath's d, as its
\* four points M, C1, C2 and the end point T.  mBox is the bounding rectangle
\* of .machine-area, tailScreen the tail anchor.
RopePathD(mBox, tailScreen, tailDir, ctm) ==
    LET mx  == [n |-> 10 * mBox.left + 5 * mBox.width, r |-> 0]
        my  == Px(mBox.top + 20)
        c1x == IF tailDir = "up"
               THEN Plus(mx, TenthsOf(7, Minus(tailScreen.x, mx)))
               ELSE Plus(mx, TenthsOf(5, Minus(tailScreen.x, mx)))
        c1y == IF tailDir = "up" THEN Minus(my, Px(50)) ELSE Minus(my, Px(150))
        c2x == IF tailDir = "up"
               THEN c1x
               ELSE Plus(mx, TenthsOf(7, Minus(tailScreen.x, mx)))
        c2y == IF tailDir = "up"
               THEN Minus(tailScreen.y, Px(350))
               ELSE Plus(tailScreen.y, Px(100))
    IN  [M  |-> toSvgCoords(ctm, mx, my),
         C1 |-> toSvgCoords(ctm, c1x, c1y),
         C2 |-> toSvgCoords(ctm, c2x, c2y),
         T  |-> toSvgCoords(ctm, tailScreen.x, tailScreen.y)]

\* ------------------------------------------------ drag clamping (part_001)

JsMax(a, b) == IF a >= b THEN a ELSE b
JsMin(a, b) == IF a <= b THEN a ELSE b

\* A clamping without the lower bound.
ClampAxis_NoFloor(v, maxV) ==
    JsMin(v, maxV)

\* part_001 lines 112-113: Math.max(0, Math.min(newLeft, maxLeft))
ClampAxis(v, maxV) ==
    JsMax(0, JsMin(v, maxV))

\* part_001 lines 108-116: the left and top the mousemove handler gives the
\* probe for the unclamped newLeft, newTop.
ClampMove(newLeft, newTop, container, probeSize) ==
    LET maxLeft == container.width - probeSize.width
        maxTop  == container.height - probeSize.height
    IN  [left |-> ClampAxis(newLeft, maxLeft), top |-> ClampAxis(newTop, maxTop)]

\* A reset that rewrites the labels and leaves the orientation.
resetProbe_LabelsOnly(s) ==
    [s EXCEPT !.rotationDisplay = "3 o'clock", !.viewDisplay = "-",
              !.tailDisplay = "Tail Down"]

\* part_001: resetProbe
resetProbe(s) ==
    [s EXCEPT !.sweepDeg = 90, !.tailPosition = "down",
              !.rotationDisplay = "3 o'clock", !.viewDisplay = "-",
              !.tailDisplay = "Tail Down"]

\* ------------------------------------------------- updateImagePreview

\* A clearing that also ends the feedback.
ClearPanel_EndsFeedback(s) ==
    Hide([s EXCEPT !.imagePanel = EmptyPanel, !.partDisplay = "-",
                   !.activeCircleElement = null, !.isFeedbackActive = FALSE],
         {"toggleButton", "showAnswerButton", "nextQuestionButton", "correctAnswerImage"})

\* part_004 lines 108-114: always clear the image panel and hide controls.
\* The circles of the panel are removed with it, the highlighted one too.
ClearPanel(s) ==
    Hide([s EXCEPT !.imagePanel = EmptyPanel, !.partDisplay = "-",
                   !.activeCircleElement = null],
         {"toggleButton", "showAnswerButton", "nextQuestionButton", "correctAnswerImage"})

\* A change of cell that keeps the view index.
ResetViewOnNewCell_Keep(s, pos) ==
    IF s.lastCellPos # pos
    THEN [s EXCEPT !.lastCellPos = pos]
    ELSE s

\* part_004 lines 134-138: if moved to a new cell, reset the view index.
ResetViewOnNewCell(s, pos) ==
    IF s.lastCellPos # pos
    THEN [s EXCEPT !.currentViewIndex = 0, !.lastCellPos = pos]
    ELSE s

\* A page that offers the switch of view in the sandbox alone.
SwitchViewShown_SandboxOnly(s, views) ==
    s.isSandBoxActive

\* part_004 line 141: views.length > 1 && isSimulatorActive || isSandBoxActive
\* (&& binds tighter than ||).
SwitchViewShown(s, views) ==
    (Len(views) > 1 /\ s.isSimulatorActive) \/ s.isSandBoxActive

\* part_004 lines 140-152: show the "switch view" control.
ShowSwitchView(s, views) ==
    IF SwitchViewShown(s, views)
    THEN [Show(s, {"toggleButton"}) EXCEPT
             !.toggleText = << s.currentViewIndex + 1, Len(views) >>]
    ELSE s

\* An orientation that rewrites the labels and leaves the angle and the tail.
ApplyOrientation_KeepsAngle(s, pos, views) ==
    LET v  == views[(s.currentViewIndex % Len(views)) + 1]
        s1 == [s EXCEPT !.rotationDisplay = degreesToClock(v.angle),
                        !.tailDisplay = IF v.tail = "up" THEN "Tail Up" ELSE "Tail Down",
                        !.viewDisplay = v.view]
    IN  IF pos = 2 /\ s.currentViewIndex % Len(views) = 2
        THEN refreshRope([s1 EXCEPT !.tailDisplay = "Tail Neutral"])
        ELSE s1

\* part_004 lines 154-177: take angle, tail and view of the current variant.
ApplyOrientation(s, pos, views) ==
    LET v  == views[(s.currentViewIndex % Len(views)) + 1]
        s1 == [s EXCEPT !.sweepDeg = v.angle, !.tailPosition = v.tail,
                        !.rotationDisplay = degreesToClock(v.angle),
                        !.tailDisplay = IF v.tail = "up" THEN "Tail Up" ELSE "Tail Down",
                        !.viewDisplay = v.view]
    IN  IF pos = 2 /\ s.currentViewIndex % Len(views) = 2
        THEN refreshRope([s1 EXCEPT !.tailDisplay = "Tail Neutral"])
        ELSE s1

\* An injection that takes the zone's first variant whatever the view index.
InjectImage_FirstVariant(s, pos) ==
    LET v   == ViewsOf(pos)[1]
        key == KeyOf(v.angle, v.tail)
    IN  [s EXCEPT !.imagePanel = ImagePanel(key, pos)]

\* part_004 lines 179-250: inject the image and its circles, or the message.
InjectImage(s, pos) ==
    LET key == KeyOf(s.sweepDeg, s.tailPosition)
    IN  IF imageSetsByAngleAndTail(key, pos) = "undefined"
        THEN [s EXCEPT !.imagePanel = NoImagePanel(key, pos)]
        ELSE [s EXCEPT !.imagePanel = ImagePanel(key, pos)]

\* part_004: updateImagePreview
updateImagePreview(s) ==
    LET m  == Match(s.probePos)
        s1 == ClearPanel(s)
    IN  IF m = 0
        THEN refreshRope([resetProbe(s1) EXCEPT !.imagePanel = PromptPanel])
        ELSE LET pos   == cells[m].pos
                 views == ViewsOf(pos)
             IN  IF Len(views) = 0
                 THEN refreshRope([s1 EXCEPT !.imagePanel = InvalidPanel])
                 ELSE LET s2 == ResetViewOnNewCell(s1, pos)
                          s3 == ShowSwitchView(s2, views)
                          s4 == ApplyOrientation(s3, pos, views)
                          s5 == InjectImage(s4, pos)
                      IN  refreshRope(s5)

\* part_004: loadQuestion (applyProbeTransform only restyles the probe)
loadQuestion(s) ==
    IF ~HasQuestion(s.currentQuestionIndex)
    THEN [s EXCEPT !.questionBox = "No question found."]
    ELSE refreshRope(updateImagePreview(
             [s EXCEPT !.questionBox = ToString(s.currentQuestionIndex + 1)]))

\* part_000: initUI
initUI(s) ==
    [refreshRope(loadQuestion(s)) EXCEPT
        !.sweepDeg = 90, !.rotationDisplay = "3 o'clock",
        !.tailDisplay = "Tail Down", !.viewDisplay = "-"]

\* ------------------------------------------------------------ history

\* The handlers that set currentQuestionIndex, and so enter a question.
EntersQuestion == {"start", "next", "restart", "confirmExit"}
\* The handlers that begin a play-through (score and index back to 0).
BeginsPlay == {"start", "restart", "confirmExit"}

\* History kept beside the program state s that handler ev leaves; hit and
\* quiz say whether ev was a marker click in quiz mode and whether the
\* marker was the one the current question asks for.
Hist(ev, s, quiz, hit) ==
    /\ lastEvent' = ev
    /\ gained' = IF ev \in EntersQuestion THEN 0
                 ELSE IF s.score > score THEN gained + (s.score - score) ELSE gained
    /\ clicks' = IF ev \in EntersQuestion THEN 0
                 ELSE IF quiz /\ clicks < 2 THEN clicks + 1 ELSE clicks
    /\ firstCorrect' = IF ev \in BeginsPlay THEN 0
                       ELSE IF quiz /\ clicks = 0 /\ hit THEN firstCorrect + 1
                       ELSE firstCorrect
    /\ cycleTrace' = IF ev # "toggle" THEN << >>
                     ELSE IF cycleTrace = << >> \/ Len(cycleTrace) > Len(ViewsOf(lastCellPos))
                          THEN << currentViewIndex, s.currentViewIndex >>
                          ELSE Append(cycleTrace, s.currentViewIndex)

Run(ev, s) == Commit(s) /\ Hist(ev, s, FALSE, FALSE)

\* ------------------------------------------------------------ handlers

\* part_000: startButton click (gameStarted, which it sets, is read nowhere)
StartClick ==
    /\ Clickable("startButton")
    /\ LET s1 == Show(Hide(Cur, {"titleScreen"}), {"questionTitleScreen"})
           s2 == [s1 EXCEPT !.currentQuestionIndex = 0, !.score = 0]
       IN  Run("start", loadQuestion(s2))

\* part_000: sandBoxButton click
SandBoxClick ==
    /\ Clickable("sandBoxButton")
    /\ LET s1 == Show(Hide(Cur, {"titleScreen"}), {"container"})
           s2 == Show(Hide(s1, {"questionArea"}), {"partContainer"})
           s3 == [s2 EXCEPT !.isSimulatorActive = FALSE, !.isSandBoxActive = TRUE]
       IN  Run("sandBox", loadQuestion(updateImagePreview(initUI(s3))))

\* part_000: continueButton click
ContinueClick ==
    /\ Clickable("continueButton")
    /\ LET s1 == Show(Hide(Cur, {"feedbackBox", "questionTitleScreen"}), {"container"})
           s2 == [s1 EXCEPT !.isSimulatorActive = TRUE]
       IN  Run("continue", loadQuestion(updateImagePreview(initUI(s2))))

\* part_000: exitButton click
ExitClick ==
    /\ Clickable("exitButton")
    /\ Run("exit", Show(Cur, {"exitPrompt", "containerOverlay"}))

\* part_000: confirmExitButton click (gameStarted is read nowhere)
ConfirmExitClick ==
    /\ Clickable("confirmExitButton")
    /\ LET s1 == [Cur EXCEPT !.isSimulatorActive = FALSE, !.isSandBoxActive = FALSE,
                             !.currentQuestionIndex = 0, !.score = 0]
           s2 == Show(Hide(s1, {"container"}), {"titleScreen", "questionArea"})
           s3 == Hide(s2, {"partContainer", "exitPrompt", "containerOverlay"})
       IN  Run("confirmExit", s3)

\* part_000: cancelExitButton click
CancelExitClick ==
    /\ Clickable("cancelExitButton")
    /\ Run("cancelExit", Hide(Cur, {"exitPrompt", "containerOverlay"}))

\* part_000: restartButton click.  The probe is put back at left = 120px,
\* top = 200px; updateRope runs at once, not on a later frame.
RestartClick ==
    /\ Clickable("restartButton")
    /\ \E home \in HomePositions :
         LET s1 == [Cur EXCEPT !.currentQuestionIndex = 0, !.score = 0,
                               !.sweepDeg = 90, !.tailPosition = "down",
                               !.currentViewIndex = 0, !.lastCellPos = null]
             s2 == Show(Hide(s1, {"endScreen"}), {"titleScreen"})
             s3 == [s2 EXCEPT !.probePos = home]
         IN  Run("restart", updateRope(loadQuestion(s3)))

\* part_001: probe mousedown
mousedown(s) == [s EXCEPT !.isDragging = TRUE]

\* part_001: document mousemove.  The new left/top are clamped into the
\* container, so the probe lands on one of its points.
mousemove(s, p) ==
    IF ~s.isDragging THEN s
    ELSE updateImagePreview(updateRope([s EXCEPT !.probePos = p]))

\* part_001: document mouseup
mouseup(s) == IF s.isDragging THEN [s EXCEPT !.isDragging = FALSE] ELSE s

\* One drag of the probe to the point p: mousedown on the probe, a mousemove
\* and the mouseup.  A longer drag is a row of these; no click falls inside a
\* drag, since a click follows a mouseup.
Drag(p) ==
    /\ Clickable("probe")
    /\ Run("drag", mouseup(mousemove(mousedown(Cur), p)))

\* A sandbox click that shows the marker's tag for its text.
SandboxAnswer_ShowsTag(s, c) ==
    LET s1 == Hide(s, {"feedbackBox", "containerOverlay", "questionTitleScreen"})
    IN  [s1 EXCEPT !.isSimulatorActive = FALSE, !.isFeedbackActive = FALSE,
                   !.partDisplay = s.imagePanel.circles[c].answer,
                   !.activeCircleElement = c]

\* A sandbox click that lowers isSandBoxActive where it should lower
\* isSimulatorActive.
SandboxAnswer_LeavesSandbox(s, c) ==
    LET s1 == Hide(s, {"feedbackBox", "containerOverlay", "questionTitleScreen"})
    IN  [s1 EXCEPT !.isSandBoxActive = FALSE, !.isFeedbackActive = FALSE,
                   !.partDisplay = s.imagePanel.circles[c].text,
                   !.activeCircleElement = c]

\* part_004 lines 205-218: circle click, sandbox branch.
SandboxAnswer(s, c) ==
    LET s1 == Hide(s, {"feedbackBox", "containerOverlay", "questionTitleScreen"})
    IN  [s1 EXCEPT !.isSimulatorActive = FALSE, !.isFeedbackActive = FALSE,
                   !.partDisplay = s.imagePanel.circles[c].text,
                   !.activeCircleElement = c]

\* A comparison that looks at the marker's tag and forgets the zone.
IsCorrect_TagOnly(qData, pos, selectedAnswer) ==
    selectedAnswer = qData.correctAnswer

\* A comparison of the zone alone.
IsCorrect_ZoneOnly(qData, pos, selectedAnswer) ==
    pos = qData.correctPosition

\* part_004 line 225: the marker is the one the question asks for.
IsCorrect(qData, pos, selectedAnswer) ==
    pos = qData.correctPosition /\ selectedAnswer = qData.correctAnswer

\* A check that scores whether or not feedback is already showing.
CheckAnswer_Unguarded(s, qData, pos, selectedAnswer) ==
    IF IsCorrect(qData, pos, selectedAnswer)
    THEN Hide(Show([s EXCEPT !.score = @ + 1, !.feedbackText = "Correct!"],
                   {"nextQuestionButton"}),
              {"correctAnswerImage"})
    ELSE Hide(Show([s EXCEPT !.feedbackText = "Incorrect."],
                   {"showAnswerButton", "nextQuestionButton"}),
              {"correctAnswerImage"})

\* A check that shows the illustration with an incorrect answer.
CheckAnswer_ShowsImage(s, qData, pos, selectedAnswer) ==
    IF IsCorrect(qData, pos, selectedAnswer) /\ ~s.isFeedbackActive
    THEN Hide(Show([s EXCEPT !.score = @ + 1, !.feedbackText = "Correct!"],
                   {"nextQuestionButton"}),
              {"correctAnswerImage"})
    ELSE IF ~s.isFeedbackActive
    THEN Show([s EXCEPT !.feedbackText = "Incorrect."],
              {"showAnswerButton", "nextQuestionButton", "correctAnswerImage"})
    ELSE s

\* part_004 lines 224-235: check the answer.
CheckAnswer(s, qData, pos, selectedAnswer) ==
    IF IsCorrect(qData, pos, selectedAnswer) /\ ~s.isFeedbackActive
    THEN Hide(Show([s EXCEPT !.score = @ + 1, !.feedbackText = "Correct!"],
                   {"nextQuestionButton"}),
              {"correctAnswerImage"})
    ELSE IF ~s.isFeedbackActive
    THEN Hide(Show([s EXCEPT !.feedbackText = "Incorrect."],
                   {"showAnswerButton", "nextQuestionButton"}),
              {"correctAnswerImage"})
    ELSE s

\* part_004 lines 237-242: show the feedback modal.
ShowFeedback(s) ==
    [Hide(Show(s, {"feedbackBox", "containerOverlay"}), {"questionTitleScreen"})
        EXCEPT !.isSimulatorActive = FALSE, !.isFeedbackActive = TRUE]

\* part_004 lines 220-243: circle click, quiz branch.  pos and circleData are
\* the ones the circle was created with.
QuizAnswer(s, c) ==
    LET qData == quizData[s.currentQuestionIndex + 1]
    IN  ShowFeedback(CheckAnswer(s, qData, s.imagePanel.pos, s.imagePanel.circles[c].answer))

\* A click handler without the sandbox branch: every click is a quiz answer.
CircleClick_QuizOnly(c) ==
    /\ Clickable("circle")
    /\ c \in 1..Len(imagePanel.circles)
    /\ IF ~HasQuestion(currentQuestionIndex)
       THEN Run("fault", Cur)
       ELSE /\ Commit(QuizAnswer(Cur, c))
            /\ Hist("circle", QuizAnswer(Cur, c), ~isSandBoxActive, FALSE)

\* part_004: .circle click.  A click follows the mouseup on the circle.  With
\* no current question the quiz branch throws on qData.correctPosition before
\* it has changed anything.
CircleClick(c) ==
    /\ Clickable("circle")
    /\ c \in 1..Len(imagePanel.circles)
    /\ IF isSandBoxActive
       THEN Run("circle", SandboxAnswer(Cur, c))
       ELSE IF ~HasQuestion(currentQuestionIndex)
       THEN Run("fault", Cur)
       ELSE /\ Commit(QuizAnswer(Cur, c))
            /\ Hist("circle", QuizAnswer(Cur, c), TRUE,
                    /\ ZoneAt(probePos) = quizData[currentQuestionIndex + 1].correctPosition
                    /\ imagePanel.circles[c].answer
                          = quizData[currentQuestionIndex + 1].correctAnswer)

\* A step to the next view that does not wrap around.
NextViewIndex_NoWrap(i, n) ==
    IF i + 1 < n THEN i + 1 ELSE i

\* part_004 line 259: currentViewIndex = (currentViewIndex + 1) % views.length
NextViewIndex(i, n) ==
    IF n = 0 THEN NaN ELSE (i + 1) % n

\* part_004: toggleButton click (lastProbeCoords, lastControl1 and
\* lastControl2, which it clears, are read nowhere).
ToggleClick ==
    /\ Clickable("toggleButton")
    /\ LET views == ViewsOf(lastCellPos)
           s1 == [Cur EXCEPT !.currentViewIndex = NextViewIndex(@, Len(views))]
       IN  Run("toggle", refreshRope(updateImagePreview(s1)))

\* feedback.js: showAnswerButton click; throws on qData.correctImage when
\* there is no current question.
ShowAnswerClick ==
    /\ Clickable("showAnswerButton")
    /\ IF ~HasQuestion(currentQuestionIndex)
       THEN Run("fault", Cur)
       ELSE Run("showAnswer",
                Hide(Show([Cur EXCEPT !.correctAnswerImageSrc =
                                quizData[currentQuestionIndex + 1].correctImage],
                          {"correctAnswerImage"}),
                     {"showAnswerButton"}))

\* An advance that skips a question.
AdvanceIndex_Skip(i) ==
    i + 2

\* A summary that reports the number of questions played as the score.
FinalScoreText_Played(s) ==
    << s.currentQuestionIndex, Len(quizData) >>

\* A next question that is the same question.
AdvanceIndex_Stay(i) ==
    i

\* feedback.js line 62: currentQuestionIndex++
AdvanceIndex(i) ==
    i + 1

\* feedback.js line 74: `${score} out of ${quizData.length}`
FinalScoreText(s) ==
    << s.score, Len(quizData) >>

\* An advance that leaves the simulator on screen under the end screen.
NextQuestionClick_KeepsBoard ==
    /\ Clickable("nextQuestionButton")
    /\ LET s1 == Hide(Cur, {"feedbackBox", "containerOverlay", "showAnswerButton",
                            "nextQuestionButton"})
           s2 == [s1 EXCEPT !.isFeedbackActive = FALSE,
                            !.currentQuestionIndex = AdvanceIndex(@)]
       IN  IF HasQuestion(s2.currentQuestionIndex)
           THEN Run("next", loadQuestion(
                    [Hide(Show(s2, {"questionTitleScreen"}), {"container"})
                        EXCEPT !.isSimulatorActive = FALSE]))
           ELSE Run("next",
                    Show([s2 EXCEPT !.finalScore = FinalScoreText(s2),
                                    !.isSimulatorActive = FALSE],
                         {"endScreen"}))

\* feedback.js: nextQuestionButton click
NextQuestionClick ==
    /\ Clickable("nextQuestionButton")
    /\ LET s1 == Hide(Cur, {"feedbackBox", "containerOverlay", "showAnswerButton",
                            "nextQuestionButton"})
           s2 == [s1 EXCEPT !.isFeedbackActive = FALSE,
                            !.currentQuestionIndex = AdvanceIndex(@)]
       IN  IF HasQuestion(s2.currentQuestionIndex)
           THEN Run("next", loadQuestion(
                    [Hide(Show(s2, {"questionTitleScreen"}), {"container"})
                        EXCEPT !.isSimulatorActive = FALSE]))
           ELSE Run("next",
                    Show([Hide(s2, {"container"}) EXCEPT
                             !.finalScore = FinalScoreText(s2),
                             !.isSimulatorActive = FALSE],
                         {"endScreen"}))

\* A frame that drops the waiting callbacks.
Frame_NoRecompute ==
    /\ rafFirst \/ rafSecond
    /\ Run("frame", [Cur EXCEPT !.rafSecond = Cur.rafFirst, !.rafFirst = FALSE])

\* An animation frame: the callbacks waiting for their second frame run
\* updateRope; those waiting for their first frame queue the second.
Frame ==
    /\ rafFirst \/ rafSecond
    /\ LET s1 == IF rafSecond THEN updateRope(Cur) ELSE Cur
       IN  Run("frame", [s1 EXCEPT !.rafSecond = s1.rafFirst, !.rafFirst = FALSE])

\* -------------------------------------------------------- specification

\* part_004 lines 55-70 and the page as loaded.
PageInit ==
    /\ currentQuestionIndex = 0
    /\ score = 0
    /\ sweepDeg = 0
    /\ tailPosition = "up"
    /\ lastCellPos = null
    /\ currentViewIndex = 0
    /\ isSimulatorActive = FALSE
    /\ isFeedbackActive = FALSE
    /\ isSandBoxActive = FALSE
    /\ isDragging = FALSE
    /\ probePos \in HomePositions
    /\ hidden = InitiallyHidden
    /\ imagePanel = EmptyPanel
    /\ partDisplay = "-"
    /\ rotationDisplay = "-"
    /\ tailDisplay = "-"
    /\ viewDisplay = "-"
    /\ toggleText = << 0, 0 >>
    /\ feedbackText = ""
    /\ finalScore = << 0, 0 >>
    /\ correctAnswerImageSrc = ""
    /\ questionBox = ""
    /\ activeCircleElement = null
    /\ rafFirst = FALSE
    /\ rafSecond = FALSE
    /\ ropePath = [center |-> probePos, angle |-> 0, tail |-> "up", viewIndex |-> 0]
    /\ lastEvent = "load"
    /\ gained = 0
    /\ clicks = 0
    /\ firstCorrect = 0
    /\ cycleTrace = << >>

\* The geometry taken on its own is not in play.
GeomIdle ==
    /\ geomIn = << >>
    /\ geomOut = << >>

\* The page: the resolver's own rectangles and point are not in play.
Init ==
    /\ PageInit
    /\ zoneRects = << >>
    /\ zonePoint = [x |-> 0, y |-> 0]
    /\ zoneResult = << >>
    /\ GeomIdle

Next ==
    \/ StartClick
    \/ SandBoxClick
    \/ ContinueClick
    \/ ExitClick
    \/ ConfirmExitClick
    \/ CancelExitClick
    \/ RestartClick
    \/ \E p \in Points : Drag(p)
    \/ \E c \in 1..6 : CircleClick(c)
    \/ ToggleClick
    \/ ShowAnswerClick
    \/ NextQuestionClick
    \/ Frame

Spec == Init /\ [][Next]_vars

\* ------------------------------------------- the zone resolver on its own

\* getBoundingClientRect() of a cell: left <= right and top <= bottom.
Rects ==
    {r \in [left : 0..MaxCoord, right : 0..MaxCoord, top : 0..MaxCoord, bottom : 0..MaxCoord] :
        r.left <= r.right /\ r.top <= r.bottom}

ZonePoints == [x : 0..MaxCoord, y : 0..MaxCoord]

\* Any two rectangles, apart, touching or overlapping, in document order;
\* nothing resolved yet.
ResolverInit ==
    /\ PageInit
    /\ \E r1 \in Rects, r2 \in Rects : zoneRects = << r1, r2 >>
    /\ zonePoint \in ZonePoints
    /\ zoneResult = << >>
    /\ GeomIdle

\* part_004 lines 96-106: updateImagePreview looks the probe's centre up.
Resolve ==
    /\ zoneResult = << >>
    /\ zoneResult' = << MatchIn(zoneRects, zonePoint) >>
    /\ UNCHANGED << progVars, histVars, zoneRects, zonePoint, geomVars >>

ResolverNext == Resolve

ResolverSpec == ResolverInit /\ [][ResolverNext]_vars

\* --------------------------------------------- the rope drawing on its own

\* The angles are multiples of 30 degrees (the orientation map holds 0, 30,
\* 90 and 300).
Angles == {30 * k : k \in 0..11}

\* svg.getScreenCTM(): null, the identity, or a scaling and a shift.
Matrices ==
    {[available |-> FALSE, a |-> 1, d |-> 1, e |-> 0, f |-> 0],
     [available |-> TRUE, a |-> 1, d |-> 1, e |-> 0, f |-> 0],
     [available |-> TRUE, a |-> 2, d |-> 3, e |-> -10, f |-> 5]}

\* The bounding rectangle of .machine-area.
MachineBoxes ==
    {[left |-> 300, top |-> 400, width |-> 100],
     [left |-> 20, top |-> 10, width |-> 40]}

RopeInit ==
    /\ PageInit
    /\ zoneRects = << >>
    /\ zonePoint = [x |-> 0, y |-> 0]
    /\ zoneResult = << >>
    /\ geomIn \in [center : [x : {Px(k) : k \in 0..MaxCoord}, y : {Px(k) : k \in 0..MaxCoord}],
                   sweepDeg : Angles, tailPosition : {"up", "down"},
                   currentViewIndex : 0..2, ctm : Matrices, mBox : MachineBoxes]
    /\ geomOut = << >>

\* part_003: updateRope, with the anchor of either tail side beside it.
Redraw ==
    /\ geomOut = << >>
    /\ geomOut' =
         << [anchorUp   |-> getTailAnchor(geomIn.center, geomIn.sweepDeg, "up",
                                          geomIn.currentViewIndex),
             anchorDown |-> getTailAnchor(geomIn.center, geomIn.sweepDeg, "down",
                                          geomIn.currentViewIndex),
             d |-> RopePathD(geomIn.mBox,
                             getTailAnchor(geomIn.center, geomIn.sweepDeg,
                                           geomIn.tailPosition, geomIn.currentViewIndex),
                             geomIn.tailPosition, geomIn.ctm)] >>
    /\ UNCHANGED << progVars, histVars, resolverVars, geomIn >>

RopeNext == Redraw

RopeSpec == RopeInit /\ [][RopeNext]_vars

\* --------------------------------------------- the drag clamping on its own

ClampInit ==
    /\ PageInit
    /\ zoneRects = << >>
    /\ zonePoint = [x |-> 0, y |-> 0]
    /\ zoneResult = << >>
    /\ geomIn \in [newLeft : -1..(MaxCoord + 1), newTop : -1..(MaxCoord + 1),
                   container : [width : 0..MaxCoord, height : 0..MaxCoord],
                   probeSize : [width : 0..MaxCoord, height : 0..MaxCoord]]
    /\ geomOut = << >>

\* part_001: the mousemove handler places the probe.
Clamp ==
    /\ geomOut = << >>
    /\ geomOut' = << ClampMove(geomIn.newLeft, geomIn.newTop, geomIn.container,
                               geomIn.probeSize) >>
    /\ UNCHANGED << progVars, histVars, resolverVars, geomIn >>

ClampNext == Clamp

ClampSpec == ClampInit /\ [][ClampNext]_vars

\* ------------------------------------------- the clock conversion on its own

ClockInit ==
    /\ PageInit
    /\ zoneRects = << >>
    /\ zonePoint = [x |-> 0, y |-> 0]
    /\ zoneResult = << >>
    /\ geomIn \in [angle : (0 - MaxAngle)..MaxAngle]
    /\ geomOut = << >>

\* part_000: degreesToClock(angle)
Convert ==
    /\ geomOut = << >>
    /\ geomOut' = << degreesToClock(geomIn.angle) >>
    /\ UNCHANGED << progVars, histVars, resolverVars, geomIn >>

ClockNext == Convert

ClockSpec == ClockInit /\ [][ClockNext]_vars

\* ================================================================ claims

\* C1: in quiz mode the score grows by at most 1 over the marker clicks,
\* moves of the probe and switches of view made on one question (gained is
\* the growth of score since the question was entered), and a marker click
\* made while isFeedbackActive is true leaves score as it was.
C1_ScoreOncePerQuestion ==
    /\ [](gained <= 1)
    /\ [][(lastEvent' = "circle" /\ isFeedbackActive) => score' = score]_vars

\* A third or later marker click on a question that has already scored.
C1_Witness ==
    /\ lastEvent = "circle"
    /\ ~isSandBoxActive
    /\ isFeedbackActive
    /\ clicks = 2
    /\ gained = 1

\* C2: a quiz-mode marker click while isFeedbackActive is false compares
\* (zone under the probe, tag of the clicked marker) with (correctPosition,
\* correctAnswer) of the current question.  Equal: score + 1 and the feedback
\* reads "Correct!".  Otherwise: score unchanged, the feedback reads
\* "Incorrect." and the reveal-answer control is shown.  Either way the
\* feedback box is shown and isFeedbackActive becomes true.
C2_AnswerDecision ==
    [][\A c \in 1..6 :
         (CircleClick(c) /\ ~isSandBoxActive /\ ~isFeedbackActive
                         /\ HasQuestion(currentQuestionIndex)) =>
            /\ isFeedbackActive'
            /\ "feedbackBox" \notin hidden'
            /\ IF /\ ZoneAt(probePos) = quizData[currentQuestionIndex + 1].correctPosition
                  /\ imagePanel.circles[c].answer
                        = quizData[currentQuestionIndex + 1].correctAnswer
               THEN /\ score' = score + 1
                    /\ feedbackText' = "Correct!"
                    /\ "showAnswerButton" \in hidden'
               ELSE /\ score' = score
                    /\ feedbackText' = "Incorrect."
                    /\ "showAnswerButton" \notin hidden']_vars

\* The first question answered right: marker "G" on zone 2 showing "300_up".
C2_Witness ==
    /\ lastEvent = "circle"
    /\ ~isSandBoxActive
    /\ currentQuestionIndex = 0
    /\ ZoneAt(probePos) = 2
    /\ imagePanel.key = "300_up"
    /\ score = 1
    /\ feedbackText = "Correct!"
    /\ clicks = 1

\* C3: a move of the probe that brings it onto a zone from no zone or from
\* another zone leaves the view index at 0 (the first variant).
C3_EnterZoneAtFirstVariant ==
    [][(/\ lastEvent' = "drag"
        /\ ZoneAt(probePos') # null
        /\ ZoneAt(probePos') # ZoneAt(probePos)) => currentViewIndex' = 0]_vars

\* C4: currentQuestionIndex stays within 0..number of questions; it is moved
\* only by the next-question click, by exactly 1, and apart from that only put
\* back to 0 where a play-through begins.
C4_QuestionsInOrder ==
    /\ [](currentQuestionIndex \in 0..Len(quizData))
    /\ [][currentQuestionIndex' # currentQuestionIndex =>
            \/ lastEvent' = "next" /\ currentQuestionIndex' = currentQuestionIndex + 1
            \/ lastEvent' \in BeginsPlay /\ currentQuestionIndex' = 0]_vars

\* The advance from the last question.
C4_Witness ==
    /\ lastEvent = "next"
    /\ currentQuestionIndex = Len(quizData)

\* C5: the next-question click on the last question ends the quiz; once
\* ended, the quiz cannot be advanced again before a new play-through begins;
\* the end screen then reads "score out of number of questions", and score is
\* the number of questions whose first marker click matched (correctPosition,
\* correctAnswer).
C5_CompletedOnce ==
    /\ [][(lastEvent' = "next" /\ currentQuestionIndex = Len(quizData) - 1)
             => currentQuestionIndex' = Len(quizData)]_vars
    /\ [][currentQuestionIndex = Len(quizData)
             => (currentQuestionIndex' = Len(quizData) \/ lastEvent' \in BeginsPlay)]_vars
    /\ [](currentQuestionIndex = Len(quizData) =>
             /\ "endScreen" \notin hidden
             /\ ~Operable("nextQuestionButton")
             /\ finalScore = << score, Len(quizData) >>
             /\ score = firstCorrect)

\* Five questions, each answered right at the first click: "5 out of 5".
C5_Witness ==
    /\ currentQuestionIndex = Len(quizData)
    /\ firstCorrect = Len(quizData)
    /\ finalScore = << 5, 5 >>
    /\ "endScreen" \notin hidden

\* C6: when a quiz question is entered (start, continue into the simulator,
\* next question, restart) isFeedbackActive is false.
C6_QuestionEntryClearsFeedback ==
    (/\ lastEvent \in {"start", "continue", "next", "restart"}
     /\ ~isSandBoxActive
     /\ HasQuestion(currentQuestionIndex)) => ~isFeedbackActive

\* C7: the switch of view is made on a zone and moves the view index from i
\* to (i + 1) mod the zone's number of variants without changing the zone; as
\* many switches in a row as the zone has variants pass through each variant
\* once and come back to the one they started from.
C7_CycleIsClosedLoop ==
    /\ [][lastEvent' = "toggle" =>
            /\ ZoneAt(probePos) # null
            /\ ZoneAt(probePos') = ZoneAt(probePos)
            /\ currentViewIndex'
                  = (currentViewIndex + 1) % Len(ViewsOf(ZoneAt(probePos)))]_vars
    /\ [](Len(cycleTrace) = Len(ViewsOf(ZoneAt(probePos))) + 1 =>
            /\ cycleTrace[Len(cycleTrace)] = cycleTrace[1]
            /\ {cycleTrace[k] : k \in 1..(Len(cycleTrace) - 1)}
                  = 0..(Len(cycleTrace) - 2))

\* Three switches in a row on zone 2, which has three variants.
C7_Witness ==
    /\ lastEvent = "toggle"
    /\ ZoneAt(probePos) = 2
    /\ Len(cycleTrace) = 4
    /\ cycleTrace[1] = 1

\* C8: a switch of view on a zone that has one variant changes nothing of the
\* session: zone, view index, orientation, image panel, labels, score,
\* question index, feedback flag.
C8_CycleOnSingleVariantIsNoOp ==
    [][(lastEvent' = "toggle" /\ Len(ViewsOf(ZoneAt(probePos))) = 1) =>
          UNCHANGED << probePos, lastCellPos, currentViewIndex, sweepDeg, tailPosition,
                       imagePanel, partDisplay, rotationDisplay, tailDisplay,
                       viewDisplay, score, currentQuestionIndex, isFeedbackActive >>]_vars

\* C9: while the probe is on a zone that has one variant the switch-view
\* control is hidden, in the quiz and in the sandbox.
C9_CycleControlHiddenOnSingleVariant ==
    (ZoneAt(probePos) # null /\ Len(ViewsOf(ZoneAt(probePos))) = 1)
        => "toggleButton" \in hidden

\* C10: after a move of the probe or a switch of view that leaves the probe
\* on a zone with more than one variant, with the quiz simulator active or in
\* the sandbox, the switch-view control is shown and reads "view i of n".
C10_SwitchViewOffered ==
    (/\ lastEvent \in {"drag", "toggle"}
     /\ ZoneAt(probePos) # null
     /\ Len(ViewsOf(ZoneAt(probePos))) > 1
     /\ (isSimulatorActive \/ isSandBoxActive))
        => /\ "toggleButton" \notin hidden
           /\ toggleText = << currentViewIndex + 1, Len(ViewsOf(ZoneAt(probePos))) >>

\* The quiz simulator, the probe dropped on zone 2.
C10_Witness ==
    /\ lastEvent = "drag"
    /\ isSimulatorActive
    /\ ~isSandBoxActive
    /\ ZoneAt(probePos) = 2
    /\ "toggleButton" \notin hidden

\* C11: a marker click in the sandbox leaves score and currentQuestionIndex
\* as they were, leaves isFeedbackActive false and the feedback box not
\* showing, and changes nothing of the view but the part label, which becomes
\* the clicked marker's text, and the highlighted marker.
C11_SandboxClickOnlyLabels ==
    [][\A c \in 1..6 :
         (CircleClick(c) /\ isSandBoxActive) =>
            /\ UNCHANGED << score, currentQuestionIndex, probePos, imagePanel, sweepDeg,
                            tailPosition, currentViewIndex, lastCellPos, rotationDisplay,
                            tailDisplay, viewDisplay, feedbackText, questionBox,
                            isSandBoxActive >>
            /\ ~isFeedbackActive'
            /\ ~Shown(Cur, "feedbackBox")'
            /\ partDisplay' = imagePanel.circles[c].text
            /\ activeCircleElement' = c]_vars

\* A sandbox click on the marker "Mitral Valve".
C11_Witness ==
    /\ lastEvent = "circle"
    /\ isSandBoxActive
    /\ activeCircleElement # null
    /\ partDisplay = "Mitral Valve"

\* C12: isSandBoxActive is raised by the sandbox button alone and lowered by
\* the confirmed exit alone, and the quiz is started and continued with it
\* lowered: no marker click, move of the probe, switch of view, reveal or
\* advance changes the mode of a session.
C12_ModeFixedInSession ==
    /\ [][isSandBoxActive' # isSandBoxActive =>
            \/ lastEvent' = "sandBox" /\ isSandBoxActive'
            \/ lastEvent' = "confirmExit" /\ ~isSandBoxActive']_vars
    /\ [](lastEvent \in {"start", "continue", "next", "showAnswer", "restart"}
             => ~isSandBoxActive)

\* A sandbox session that has switched views twice on zone 2.
C12_Witness ==
    /\ lastEvent = "toggle"
    /\ isSandBoxActive
    /\ currentViewIndex = 2

C14_ExitResets ==
    lastEvent = "confirmExit" =>
        /\ currentQuestionIndex = 0
        /\ score = 0
        /\ sweepDeg = 90
        /\ tailPosition = "down"
        /\ currentViewIndex = 0
        /\ lastCellPos = null

\* C15: the sandbox button leaves score and currentQuestionIndex as they
\* were, and so does every move of the probe, switch of view and marker click
\* of a sandbox session.
C15_SandboxKeepsScoreAndIndex ==
    [][(\/ lastEvent' = "sandBox"
        \/ isSandBoxActive /\ lastEvent' \in {"drag", "toggle", "circle"})
          => UNCHANGED << score, currentQuestionIndex >>]_vars

\* A sandbox click on the very marker the first question asks for.
C15_Witness ==
    /\ lastEvent = "circle"
    /\ isSandBoxActive
    /\ ZoneAt(probePos) = quizData[1].correctPosition
    /\ imagePanel.key = quizData[1].key
    /\ activeCircleElement # null
    /\ imagePanel.circles[activeCircleElement].answer = quizData[1].correctAnswer
    /\ score = 0

\* C16 as stated: a point strictly inside exactly one rectangle resolves to
\* that rectangle, a point outside every rectangle resolves to none.
C16_StrictlyInsideOneAsStated ==
    zoneResult # << >> =>
        /\ \A i \in 1..Len(zoneRects) :
              (/\ zonePoint.x > zoneRects[i].left /\ zonePoint.x < zoneRects[i].right
               /\ zonePoint.y > zoneRects[i].top /\ zonePoint.y < zoneRects[i].bottom
               /\ \A j \in (1..Len(zoneRects)) \ {i} :
                     ~(/\ zonePoint.x > zoneRects[j].left /\ zonePoint.x < zoneRects[j].right
                       /\ zonePoint.y > zoneRects[j].top /\ zonePoint.y < zoneRects[j].bottom))
                 => zoneResult[1] = i
        /\ (\A i \in 1..Len(zoneRects) :
               ~(/\ zonePoint.x >= zoneRects[i].left /\ zonePoint.x <= zoneRects[i].right
                 /\ zonePoint.y >= zoneRects[i].top /\ zonePoint.y <= zoneRects[i].bottom))
              => zoneResult[1] = 0

\* C16, amended: a point strictly inside one rectangle and neither inside nor
\* on the edge of any other resolves to that rectangle; a point outside every
\* rectangle resolves to none.
C16_StrictlyInsideOnlyOne ==
    zoneResult # << >> =>
        /\ \A i \in 1..Len(zoneRects) :
              (/\ zonePoint.x > zoneRects[i].left /\ zonePoint.x < zoneRects[i].right
               /\ zonePoint.y > zoneRects[i].top /\ zonePoint.y < zoneRects[i].bottom
               /\ \A j \in (1..Len(zoneRects)) \ {i} :
                     ~(/\ zonePoint.x >= zoneRects[j].left /\ zonePoint.x <= zoneRects[j].right
                       /\ zonePoint.y >= zoneRects[j].top /\ zonePoint.y <= zoneRects[j].bottom))
                 => zoneResult[1] = i
        /\ (\A i \in 1..Len(zoneRects) :
               ~(/\ zonePoint.x >= zoneRects[i].left /\ zonePoint.x <= zoneRects[i].right
                 /\ zonePoint.y >= zoneRects[i].top /\ zonePoint.y <= zoneRects[i].bottom))
              => zoneResult[1] = 0

\* The point (1, 1) strictly inside the second rectangle, level with the
\* first but to its right: the second is resolved.
C16_Witness ==
    /\ zoneResult = << 2 >>
    /\ zonePoint = [x |-> 1, y |-> 1]
    /\ zoneRects[2] = [left |-> 0, right |-> MaxCoord, top |-> 0, bottom |-> MaxCoord]
    /\ zoneRects[1] = [left |-> 0, right |-> 0, top |-> 0, bottom |-> MaxCoord]

\* C17: the resolver always returns none or one of the rectangles, and for a
\* point held by several rectangles (overlapping, or sharing the edge the
\* point is on) it returns the first of them in document order.
C17_FirstMatchWins ==
    zoneResult # << >> =>
        /\ zoneResult[1] \in 0..Len(zoneRects)
        /\ LET holds == {i \in 1..Len(zoneRects) :
                            /\ zonePoint.x >= zoneRects[i].left
                            /\ zonePoint.x <= zoneRects[i].right
                            /\ zonePoint.y >= zoneRects[i].top
                            /\ zonePoint.y <= zoneRects[i].bottom}
           IN  Cardinality(holds) > 1 =>
                  /\ zoneResult[1] \in holds
                  /\ \A j \in holds : zoneResult[1] <= j

\* Two rectangles side by side and the point on the edge they share.
C17_Witness ==
    /\ zoneResult = << 1 >>
    /\ zoneRects[1].right = zoneRects[2].left
    /\ zoneRects[1].left < zoneRects[1].right
    /\ zoneRects[2].left < zoneRects[2].right
    /\ zonePoint.x = zoneRects[1].right
    /\ zonePoint.y >= zoneRects[2].top
    /\ zonePoint.y <= zoneRects[2].bottom

\* C18: a move of the probe that ends on no zone leaves the idle default (90
\* degrees, tail down, "3 o'clock", "Tail Down", view "-") and the prompt with
\* no markers in the image panel; a move that ends on a zone leaves an image
\* of that zone in the panel.
C18_NoZoneIsIdleDefault ==
    /\ (lastEvent = "drag" /\ ZoneAt(probePos) = null) =>
          /\ sweepDeg = 90
          /\ tailPosition = "down"
          /\ rotationDisplay = "3 o'clock"
          /\ tailDisplay = "Tail Down"
          /\ viewDisplay = "-"
          /\ imagePanel = PromptPanel
          /\ imagePanel.circles = << >>
    /\ (lastEvent = "drag" /\ ZoneAt(probePos) # null) =>
          /\ imagePanel.kind = "image"
          /\ imagePanel.pos = ZoneAt(probePos)

\* The probe dragged off zone 2, which it had been showing at 30 degrees.
C18_Witness ==
    /\ lastEvent = "drag"
    /\ ZoneAt(probePos) = null
    /\ lastCellPos = 2
    /\ imagePanel = PromptPanel
    /\ sweepDeg = 90

\* C19: after a move of the probe onto a zone and after a switch of view the
\* image panel holds the image and the markers registered for the key of the
\* zone's current variant and the zone, or the "no image" message and no
\* markers when none is registered; the orientation is that variant's.
C19_PanelMatchesKeyAndZone ==
    (lastEvent \in {"drag", "toggle"} /\ ZoneAt(probePos) # null) =>
        /\ currentViewIndex \in 0..(Len(ViewsOf(ZoneAt(probePos))) - 1)
        /\ LET pos == ZoneAt(probePos)
               v   == cellOrientationMap[pos][currentViewIndex + 1]
               key == KeyOf(v.angle, v.tail)
           IN  /\ sweepDeg = v.angle
               /\ tailPosition = v.tail
               /\ imagePanel.key = key
               /\ imagePanel.pos = pos
               /\ IF imageSetsByAngleAndTail(key, pos) = "undefined"
                  THEN imagePanel.kind = "No image for key" /\ imagePanel.circles = << >>
                  ELSE /\ imagePanel.kind = "image"
                       /\ imagePanel.src = imageSetsByAngleAndTail(key, pos)
                       /\ imagePanel.circles = circlePositionsByKey(key, pos)

\* Zone 2 switched to its second variant: the panel has left "30_up".
C19_Witness ==
    /\ lastEvent = "toggle"
    /\ ZoneAt(probePos) = 2
    /\ currentViewIndex = 1
    /\ imagePanel.key = "30_down"

\* C20: no handler faults: a quiz marker click and a reveal find a current
\* question, a switch of view finds a remembered zone that has variants, and
\* the view index is always a number.
C20_NoFault ==
    /\ [](lastEvent # "fault" /\ currentViewIndex # NaN)
    /\ [][(lastEvent' = "circle" /\ ~isSandBoxActive) => HasQuestion(currentQuestionIndex)]_vars
    /\ [][lastEvent' = "showAnswer" => HasQuestion(currentQuestionIndex)]_vars
    /\ [][lastEvent' = "toggle" => (lastCellPos # null /\ Len(ViewsOf(lastCellPos)) > 0)]_vars

\* The reveal on the last question.
C20_Witness ==
    /\ lastEvent = "showAnswer"
    /\ currentQuestionIndex = Len(quizData) - 1
    /\ correctAnswerImageSrc = quizData[Len(quizData)].correctImage

\* C21: every handler that moves the probe or changes its orientation (a
\* drag, a switch of view, Restart) leaves a recompute of the rope waiting for
\* its first frame; a waiting recompute is moved to its second frame by one
\* frame and run by the next, and a frame with none waiting for its second
\* frame leaves the curve alone.
C21_RecomputeDeferredTwoFrames ==
    /\ [][lastEvent' \in {"drag", "toggle", "restart"} => rafFirst']_vars
    /\ [][(sweepDeg' # sweepDeg \/ tailPosition' # tailPosition
             \/ probePos' # probePos \/ currentViewIndex' # currentViewIndex)
          => rafFirst']_vars
    /\ [][(lastEvent' = "frame" /\ rafFirst) => (rafSecond' /\ ~rafFirst')]_vars
    /\ [][(lastEvent' = "frame" /\ ~rafSecond) => ropePath' = ropePath]_vars
    /\ [][(lastEvent' # "frame" /\ ~rafSecond) => ~rafSecond']_vars

\* One frame after a switch of view: the recompute waits for its second
\* frame and the curve is still the one of the variant before.
C21_Witness ==
    /\ lastEvent = "frame"
    /\ rafSecond
    /\ ~rafFirst
    /\ currentViewIndex = 1
    /\ ropePath.viewIndex = 0

\* C22: once no recompute of the rope is waiting, the curve is the one of the
\* latest position, angle, tail side and variant index; every recompute that
\* runs takes them as they are when it runs.
C22_RopeSettlesOnLatest ==
    /\ []((~rafFirst /\ ~rafSecond) =>
            ropePath = [center |-> probePos, angle |-> sweepDeg,
                        tail |-> tailPosition, viewIndex |-> currentViewIndex])
    /\ [][(lastEvent' = "frame" /\ rafSecond) =>
            ropePath' = [center |-> probePos', angle |-> sweepDeg',
                         tail |-> tailPosition', viewIndex |-> currentViewIndex']]_vars

\* The last waiting recompute has run after two switches of view in zone 2.
C22_Witness ==
    /\ lastEvent = "frame"
    /\ ~rafFirst
    /\ ~rafSecond
    /\ ZoneAt(probePos) = 2
    /\ currentViewIndex = 2
    /\ ropePath.viewIndex = 2

\* C23: for one center and one angle t, the anchors of the two tail sides are
\* the points of the circle of radius 80 around the center at t and at
\* t + 180 degrees, opposite each other; with the variant index 2 the anchor
\* of either side is the center.
C23_AnchorsOppositeOnCircle ==
    geomOut # << >> =>
        LET c    == geomIn.center
            up   == geomOut[1].anchorUp
            down == geomOut[1].anchorDown
            At(deg) == [x |-> Plus(c.x, Times(400, TwiceCos(deg))),
                        y |-> Plus(c.y, Times(400, TwiceSin(deg)))]
            \* the square of the distance to c is 80 * 80
            OnCircle(q) ==
                LET dx == Minus(q.x, c.x)
                    dy == Minus(q.y, c.y)
                IN  /\ dx.n * dx.n + 3 * dx.r * dx.r + dy.n * dy.n + 3 * dy.r * dy.r
                         = 100 * 80 * 80
                    /\ dx.n * dx.r + dy.n * dy.r = 0
        IN  IF geomIn.currentViewIndex = 2
            THEN up = c /\ down = c
            ELSE /\ {up, down} = {At(geomIn.sweepDeg), At(geomIn.sweepDeg + 180)}
                 /\ OnCircle(up)
                 /\ OnCircle(down)
                 /\ Plus(up.x, down.x) = Times(2, c.x)
                 /\ Plus(up.y, down.y) = Times(2, c.y)

\* The anchors at 30 degrees: 40 * sqrt(3) to either side, 40 above and below.
C23_Witness ==
    /\ geomOut # << >>
    /\ geomIn.sweepDeg = 30
    /\ geomIn.currentViewIndex = 0
    /\ geomIn.center = [x |-> Px(1), y |-> Px(2)]
    /\ geomOut[1].anchorDown = [x |-> [n |-> 10, r |-> 400], y |-> [n |-> 420, r |-> 0]]
    /\ geomOut[1].anchorUp = [x |-> [n |-> 10, r |-> -400], y |-> [n |-> -380, r |-> 0]]

\* C24: the path starts at the source point S and ends at the anchor T; its
\* control points are, for the tail up, both at x = S.x + 0.7 * (T.x - S.x),
\* with y = S.y - 50 and y = T.y - 350, and for the tail down at
\* x = S.x + 0.5 * (T.x - S.x) and x = S.x + 0.7 * (T.x - S.x), with
\* y = S.y - 150 and y = T.y + 100; each point in drawing coordinates.
C24_CurveControlPoints ==
    geomOut # << >> =>
        LET S == [x |-> Px(geomIn.mBox.left + geomIn.mBox.width \div 2),
                  y |-> Px(geomIn.mBox.top + 20)]
            T == IF geomIn.tailPosition = "up"
                 THEN geomOut[1].anchorUp ELSE geomOut[1].anchorDown
            Frac(k) == [n |-> (k * (T.x.n - S.x.n)) \div 10,
                        r |-> (k * (T.x.r - S.x.r)) \div 10]
            d == geomOut[1].d
            Svg(x, y) == toSvgCoords(geomIn.ctm, x, y)
        IN  /\ d.M = Svg(S.x, S.y)
            /\ d.T = Svg(T.x, T.y)
            /\ geomIn.tailPosition = "up" =>
                 /\ d.C1 = Svg(Plus(S.x, Frac(7)), Minus(S.y, Px(50)))
                 /\ d.C2 = Svg(Plus(S.x, Frac(7)), Minus(T.y, Px(350)))
            /\ geomIn.tailPosition = "down" =>
                 /\ d.C1 = Svg(Plus(S.x, Frac(5)), Minus(S.y, Px(150)))
                 /\ d.C2 = Svg(Plus(S.x, Frac(7)), Plus(T.y, Px(100)))

\* Tail down at 0 degrees from the box at 300, 400: S = (350, 420),
\* T = (81, 2), control points (215.5, 270) and (161.7, 102).
C24_Witness ==
    /\ geomOut # << >>
    /\ geomIn.tailPosition = "down"
    /\ geomIn.sweepDeg = 0
    /\ geomIn.currentViewIndex = 0
    /\ geomIn.center = [x |-> Px(1), y |-> Px(2)]
    /\ geomIn.mBox.left = 300
    /\ geomIn.ctm.available /\ geomIn.ctm.a = 1
    /\ geomOut[1].d.C1 = [x |-> [n |-> 2155, r |-> 0], y |-> Px(270), warned |-> FALSE]
    /\ geomOut[1].d.C2 = [x |-> [n |-> 1617, r |-> 0], y |-> Px(102), warned |-> FALSE]

\* C25: without a matrix every point of the path keeps its viewport
\* coordinates, a warning is logged for each, and the path is written.
C25_NoMatrixIsIdentity ==
    (geomOut # << >> /\ ~geomIn.ctm.available) =>
        LET S == [x |-> Px(geomIn.mBox.left + geomIn.mBox.width \div 2),
                  y |-> Px(geomIn.mBox.top + 20)]
            T == IF geomIn.tailPosition = "up"
                 THEN geomOut[1].anchorUp ELSE geomOut[1].anchorDown
            d == geomOut[1].d
        IN  /\ d.M = [x |-> S.x, y |-> S.y, warned |-> TRUE]
            /\ d.T = [x |-> T.x, y |-> T.y, warned |-> TRUE]
            /\ d.C1.warned /\ d.C2.warned
            /\ d.C1.y = Minus(S.y, Px(IF geomIn.tailPosition = "up" THEN 50 ELSE 150))
            /\ d.C2.y = IF geomIn.tailPosition = "up"
                        THEN Minus(T.y, Px(350)) ELSE Plus(T.y, Px(100))
            /\ d.C2.x = Plus(S.x, [n |-> (7 * (T.x.n - S.x.n)) \div 10,
                                   r |-> (7 * (T.x.r - S.x.r)) \div 10])

\* A path drawn without a matrix, away from the origin.
C25_Witness ==
    /\ geomOut # << >>
    /\ ~geomIn.ctm.available
    /\ geomOut[1].d.M = [x |-> Px(350), y |-> Px(420), warned |-> TRUE]
    /\ geomOut[1].d.T.warned
    /\ geomOut[1].d.T.x # Px(0)

\* C26: with a container no smaller than the probe, the left the handler
\* sets is in 0..(container width - probe width) and the top in
\* 0..(container height - probe height), each the nearest value of its range
\* to its own unclamped coordinate, so the probe's box stays in the container.
C26_ClampedIntoContainer ==
    (/\ geomOut # << >>
     /\ geomIn.container.width >= geomIn.probeSize.width
     /\ geomIn.container.height >= geomIn.probeSize.height) =>
        LET maxLeft == geomIn.container.width - geomIn.probeSize.width
            maxTop  == geomIn.container.height - geomIn.probeSize.height
            Nearest(v, hi) == IF v < 0 THEN 0 ELSE IF v > hi THEN hi ELSE v
            out == geomOut[1]
        IN  /\ out.left \in 0..maxLeft
            /\ out.top \in 0..maxTop
            /\ out.left = Nearest(geomIn.newLeft, maxLeft)
            /\ out.top = Nearest(geomIn.newTop, maxTop)
            /\ out.left + geomIn.probeSize.width <= geomIn.container.width
            /\ out.top + geomIn.probeSize.height <= geomIn.container.height

\* A move past the left edge and past the bottom edge at once.
C26_Witness ==
    /\ geomOut # << >>
    /\ geomIn.newLeft = -1
    /\ geomIn.newTop = MaxCoord + 1
    /\ geomIn.container = [width |-> MaxCoord, height |-> MaxCoord]
    /\ geomIn.probeSize = [width |-> 1, height |-> 1]
    /\ geomOut[1] = [left |-> 0, top |-> MaxCoord - 1]

\* C27: after every handler that leaves the probe in a zone z with index i,
\* the angle, the tail and the displayed view name are those of variant i of
\* z, and the panel's lookup key is that angle and tail.
C27_OrientationIsVariant ==
    (lastEvent # "load" /\ ZoneAt(probePos) # null) =>
        /\ currentViewIndex \in 0..(Len(ViewsOf(ZoneAt(probePos))) - 1)
        /\ LET v == cellOrientationMap[ZoneAt(probePos)][currentViewIndex + 1]
           IN  /\ sweepDeg = v.angle
               /\ tailPosition = v.tail
               /\ viewDisplay = v.view
               /\ imagePanel.key = KeyOf(v.angle, v.tail)

\* The probe dropped in zone 3: its only variant is on display.
C27_Witness ==
    /\ lastEvent = "drag"
    /\ ZoneAt(probePos) = 3
    /\ currentViewIndex = 0
    /\ viewDisplay = cellOrientationMap[3][1].view

\* C28: a quiz click that opens the feedback hides the illustration of the
\* correct answer; only the reveal shows it, with the current question's
\* picture; the reveal control comes up only with an incorrect first click.
C28_IllustrationOnlyOnReveal ==
    /\ [][(lastEvent' = "circle" /\ ~isSandBoxActive /\ ~isFeedbackActive)
          => "correctAnswerImage" \in hidden']_vars
    /\ [][("correctAnswerImage" \in hidden /\ "correctAnswerImage" \notin hidden')
          => (/\ lastEvent' = "showAnswer"
              /\ correctAnswerImageSrc' = quizData[currentQuestionIndex + 1].correctImage)]_vars
    /\ [][("showAnswerButton" \in hidden /\ "showAnswerButton" \notin hidden')
          => (/\ lastEvent' = "circle"
              /\ ~isSandBoxActive
              /\ ~isFeedbackActive
              /\ feedbackText' = "Incorrect."
              /\ score' = score)]_vars
    /\ [](Shown(Cur, "correctAnswerImage")
          => correctAnswerImageSrc = quizData[currentQuestionIndex + 1].correctImage)

\* An incorrect click: the reveal control is up, the illustration hidden.
C28_Witness ==
    /\ lastEvent = "circle"
    /\ ~isSandBoxActive
    /\ feedbackText = "Incorrect."
    /\ Operable("showAnswerButton")
    /\ "correctAnswerImage" \in hidden

\* C29: a drag and a switch of view leave the score, the question index and
\* the feedback flag as they are; in a quiz session the feedback flag, once
\* set, is cleared by Next Question only.
C29_MoveAndCycleKeepQuizState ==
    /\ [][lastEvent' \in {"drag", "toggle"}
          => UNCHANGED << score, currentQuestionIndex, isFeedbackActive >>]_vars
    /\ [][(isFeedbackActive /\ ~isFeedbackActive' /\ ~isSandBoxActive)
          => lastEvent' = "next"]_vars

\* A drag while the feedback of a scored answer is up.
C29_Witness ==
    /\ lastEvent = "drag"
    /\ isFeedbackActive
    /\ ~isSandBoxActive
    /\ score = 1

\* C30: in a quiz session, whenever the feedback flag is set the Next Question
\* button can be clicked.
C30_AdvanceAvailableInFeedback ==
    (isFeedbackActive /\ ~isSandBoxActive /\ Shown(Cur, "container"))
        => Operable("nextQuestionButton")

\* C31: in every state 0 <= score <= currentQuestionIndex + 1 and score is at
\* most the number of questions, and score = currentQuestionIndex + 1 only
\* while isFeedbackActive is true.
C31_ScoreBounds ==
    /\ 0 <= score
    /\ score <= currentQuestionIndex + 1
    /\ score <= Len(quizData)
    /\ score = currentQuestionIndex + 1 => isFeedbackActive

\* The second question answered correctly after the first: score 2 at index 1.
C31_Witness ==
    /\ lastEvent = "circle"
    /\ currentQuestionIndex = 1
    /\ score = currentQuestionIndex + 1
    /\ isFeedbackActive

\* C32: whenever the probe is on a zone the view index is one of that zone's
\* variants, and the Switch View button on display reads n/total with
\* 1 <= n <= total.
C32_ViewIndexInRange ==
    /\ ZoneAt(probePos) # null =>
          (0 <= currentViewIndex /\ currentViewIndex < Len(ViewsOf(ZoneAt(probePos))))
    /\ Shown(Cur, "toggleButton") =>
          (1 <= toggleText[1] /\ toggleText[1] <= toggleText[2])

\* The probe dropped on a zone of one variant with zone 2 remembered: the
\* index is back at the first variant.
C32_Witness ==
    /\ lastEvent = "drag"
    /\ ZoneAt(probePos) = 4
    /\ lastCellPos = 4
    /\ currentViewIndex = 0
    /\ ropePath.viewIndex = 2

\* C33: a marker click that raises the score happens with the orientation
\* key, and the key the panel was filled for, equal to the current
\* question's key.
C33_ScoredOnlyAtQuestionKey ==
    [][score' = score + 1 =>
         /\ HasQuestion(currentQuestionIndex)
         /\ KeyOf(sweepDeg, tailPosition) = quizData[currentQuestionIndex + 1].key
         /\ imagePanel.key = quizData[currentQuestionIndex + 1].key]_vars

\* The second question scored on zone 2 at its second variant.
C33_Witness ==
    /\ lastEvent = "circle"
    /\ currentQuestionIndex = 1
    /\ gained = 1
    /\ feedbackText = "Correct!"
    /\ imagePanel.key = "30_down"
    /\ quizData[2].key = "30_down"

\* C34: each question's zone has a variant with the question's key, whose
\* markers hold the question's answer tag; and in a quiz, with the probe on
\* the question's zone at that key, the panel shows a marker with that tag.
\* (That a play-through with every question scored exists is the witness.)
C34_QuestionsAnswerable ==
    /\ \A n \in 1..Len(quizData) :
          LET q == quizData[n]
              views == ViewsOf(q.correctPosition)
              marks == circlePositionsByKey(q.key, q.correctPosition)
          IN  /\ \E i \in 1..Len(views) :
                    /\ KeyOf(views[i].angle, views[i].tail) = q.key
                    /\ (i > 1 => Len(views) > 1)
              /\ \E m \in 1..Len(marks) : marks[m].answer = q.correctAnswer
    /\ (/\ ~isSandBoxActive
        /\ Shown(Cur, "container")
        /\ HasQuestion(currentQuestionIndex)
        /\ ZoneAt(probePos) = quizData[currentQuestionIndex + 1].correctPosition
        /\ KeyOf(sweepDeg, tailPosition) = quizData[currentQuestionIndex + 1].key) =>
          \E m \in 1..Len(imagePanel.circles) :
              imagePanel.circles[m].answer = quizData[currentQuestionIndex + 1].correctAnswer

\* The end screen of a play-through in which every question was scored.
C34_Witness ==
    /\ lastEvent = "next"
    /\ ~isSandBoxActive
    /\ Shown(Cur, "endScreen")
    /\ score = Len(quizData)
    /\ currentQuestionIndex = Len(quizData)

\* C35: once no recompute of the rope is waiting, the anchor the rope was
\* drawn to is the probe's center only with the probe on zone 2 at the view
\* index 2; with the probe on no zone the anchor is off the center.
C35_AnchorAtCenterOnlyWhenNeutral ==
    (~rafFirst /\ ~rafSecond) =>
        LET c == [x |-> Px(ropePath.center.x), y |-> Px(ropePath.center.y)]
            a == getTailAnchor(c, ropePath.angle, ropePath.tail, ropePath.viewIndex)
        IN  /\ a = c => (ZoneAt(probePos) = 2 /\ currentViewIndex = 2)
            /\ ZoneAt(probePos) = null => a # c

\* C36: for every integer angle a the label is that of a mod 360, it is the
\* label of the clock hour nearest to a mod 360, a half step going to the
\* later hour and hour 0 reading "12 o'clock"; 90 reads "3 o'clock", 300
\* "10 o'clock", 345 "12 o'clock".
C36_NearestClockHour ==
    geomOut # << >> =>
        LET a == geomIn.angle
            m == a % 360
            Label(h) == IF h = 0 THEN "12 o'clock" ELSE ToString(h) \o " o'clock"
        IN  /\ geomOut[1] = degreesToClock(m)
            /\ \E k \in 0..12 :
                  /\ 30 * k - 15 <= m
                  /\ m < 30 * k + 15
                  /\ geomOut[1] = Label(k % 12)
            /\ geomOut[1] \in {Label(h) : h \in 0..11}
            /\ a = 90 => geomOut[1] = "3 o'clock"
            /\ a = 300 => geomOut[1] = "10 o'clock"
            /\ a = 345 => geomOut[1] = "12 o'clock"

\* A negative angle on a half step: -375 is 345 mod 360, which reads 12.
C36_Witness ==
    /\ geomOut # << >>
    /\ geomIn.angle = 0 - 375
    /\ geomOut[1] = "12 o'clock"

====
